---- MODULE Spec2Model ----
(***************************************************************************)
(* Ride-sharing service: RideService (service.py) orchestrating Driver,    *)
(* Passenger, Vehicle, RideRequest and Ride objects (models.py) with the   *)
(* geo utilities of utils.py.                                              *)
(*                                                                         *)
(* Units.  Coordinates are in 1e-4 degree, distances in metres, money in   *)
(* cents, time in clock ticks; a float rating is the exact fraction        *)
(* <<numerator, denominator>> in lowest terms.  Objects that the caller    *)
(* constructs (Driver, Passenger, Vehicle) are identified by a number;     *)
(* RideRequest and Ride objects are only constructed by the service and    *)
(* are identified by their position in _requests / _rides.                 *)
(***************************************************************************)
EXTENDS Integers, Sequences, FiniteSets, TLC

\* ------------------------------------------------------------------ bounds
NumDrivers == 2
NumPassengers == 2
MaxDrivers == 2
MaxPassengers == 1
MaxRequests == 2
MaxRides == 3
MaxCompletions == 2

DriverObjs == 1..NumDrivers
PassengerObjs == 1..NumPassengers

\* ------------------------------------------------- utils.py: Location
Location(lat, lon) == [latitude |-> lat, longitude |-> lon]

\* mutant: the bounds themselves are refused
Location__init___Strict(lat, lon) ==
    IF ~(-900000 < lat /\ lat < 900000 /\ -1800000 < lon /\ lon < 1800000)
    THEN [err |-> "ValueError", obj |-> Location(0, 0)]
    ELSE [err |-> "", obj |-> Location(lat, lon)]

\* Location.__init__: the object, or the error raised
\* (-90 <= lat <= 90 and -180 <= lon <= 180, in 1/10000 degree)
Location__init__(lat, lon) ==
    IF ~(-900000 <= lat /\ lat <= 900000 /\ -1800000 <= lon /\ lon <= 1800000)
    THEN [err |-> "ValueError", obj |-> Location(0, 0)]
    ELSE [err |-> "", obj |-> Location(lat, lon)]

\* the coordinates main.py uses, and one point due east of the pickup
LocD1 == Location(410082, 289784)
LocD2 == Location(410401, 290069)
LocP1 == Location(410345, 290000)
LocDrop == Location(409850, 290596)
LocEast == Location(410345, 290596)

Locs == {LocD1, LocD2, LocP1, LocDrop, LocEast}
\* main.py: the first driver starts at LocD1, the others at LocD2
DriverStart(d) == IF d = 1 THEN LocD1 ELSE LocD2
Pickups == {LocP1, LocEast}
Dropoffs == {LocEast}

\* a point in Sudan, (8.0, 30.0), and its antipode in the Pacific,
\* (-8.0, -150.0); the service of main.py never goes there
LocFar == Location(80000, 300000)
LocAnti == Location(-80000, -1500000)
DistancePoints == Locs \cup {LocFar, LocAnti}

\* ------------------------------------------- utils.py: calculate_distance
\* The haversine distance on the points above, as calculate_distance
\* returns it, rounded to the metre (one entry per ordered pair).
HaversineMetres ==
    <<LocD1, LocD1>> :> 0 @@
    <<LocD1, LocD2>> :> 4278 @@
    <<LocD1, LocP1>> :> 3440 @@
    <<LocD1, LocDrop>> :> 7287 @@
    <<LocD1, LocEast>> :> 7413 @@
    <<LocD2, LocD1>> :> 4278 @@
    <<LocD2, LocD2>> :> 0 @@
    <<LocD2, LocP1>> :> 850 @@
    <<LocD2, LocDrop>> :> 7556 @@
    <<LocD2, LocEast>> :> 4464 @@
    <<LocP1, LocD1>> :> 3440 @@
    <<LocP1, LocD2>> :> 850 @@
    <<LocP1, LocP1>> :> 0 @@
    <<LocP1, LocDrop>> :> 7437 @@
    <<LocP1, LocEast>> :> 4999 @@
    <<LocDrop, LocD1>> :> 7287 @@
    <<LocDrop, LocD2>> :> 7556 @@
    <<LocDrop, LocP1>> :> 7437 @@
    <<LocDrop, LocDrop>> :> 0 @@
    <<LocDrop, LocEast>> :> 5504 @@
    <<LocEast, LocD1>> :> 7413 @@
    <<LocEast, LocD2>> :> 4464 @@
    <<LocEast, LocP1>> :> 4999 @@
    <<LocEast, LocDrop>> :> 5504 @@
    <<LocEast, LocEast>> :> 0 @@
    <<LocD1, LocFar>> :> 3671733 @@
    <<LocD1, LocAnti>> :> 16343353 @@
    <<LocD2, LocFar>> :> 3675202 @@
    <<LocD2, LocAnti>> :> 16339885 @@
    <<LocP1, LocFar>> :> 3674598 @@
    <<LocP1, LocAnti>> :> 16340489 @@
    <<LocDrop, LocFar>> :> 3668943 @@
    <<LocDrop, LocAnti>> :> 16346144 @@
    <<LocEast, LocFar>> :> 3674444 @@
    <<LocEast, LocAnti>> :> 16340642 @@
    <<LocFar, LocD1>> :> 3671733 @@
    <<LocFar, LocD2>> :> 3675202 @@
    <<LocFar, LocP1>> :> 3674598 @@
    <<LocFar, LocDrop>> :> 3668943 @@
    <<LocFar, LocEast>> :> 3674444 @@
    <<LocFar, LocFar>> :> 0 @@
    <<LocAnti, LocD1>> :> 16343353 @@
    <<LocAnti, LocD2>> :> 16339885 @@
    <<LocAnti, LocP1>> :> 16340489 @@
    <<LocAnti, LocDrop>> :> 16346144 @@
    <<LocAnti, LocEast>> :> 16340642 @@
    <<LocAnti, LocAnti>> :> 0

\* The pairs of these points on which calculate_distance raises
\* ValueError("math domain error"): the two points are antipodal, the float
\* a comes out above 1, and sqrt(1 - a) has a negative argument.
MathDomainError == {<<LocFar, LocAnti>>, <<LocAnti, LocFar>>}

calculate_distance(loc1, loc2) == HaversineMetres[<<loc1, loc2>>]

\* ------------------------------------------------------ exact fractions
RECURSIVE Gcd(_, _)
Gcd(a, b) == IF b = 0 THEN a ELSE Gcd(b, a % b)

Abs(x) == IF x < 0 THEN -x ELSE x

\* lowest terms, positive denominator
Frac(n, d) ==
    LET g == Gcd(Abs(n), Abs(d))
        s == IF d < 0 THEN -1 ELSE 1
    IN  <<(s * n) \div g, (s * d) \div g>>

FracLess(a, b) == a[1] * b[2] < b[1] * a[2]

\* the inputs of complete_ride
Ratings == {Frac(49, 10), Frac(3, 1)}
ActualDistances == {11200}
FinalFares == {1850}
SortKeys == {"rating", "distance", "price"}
Reverses == {TRUE, FALSE}

\* ----------------------------------------------------- service.py constants
BASE_RATE == 50
TIME_RATE == 20
BASE_FARE == 250

\* float('inf')
Infinity == -1

\* -------------------------------------------------------------- state
VARIABLES
    drivers,       \* RideService._drivers: sequence of Driver objects
    passengers,    \* RideService._passengers: sequence of Passenger objects
    requests,      \* RideService._requests: the RideRequest objects
    rides,         \* RideService._rides: the Ride objects
    driverObj,     \* the fields of every Driver object
    vehicleObj,    \* the fields of every driver's Vehicle object
    passengerObj,  \* the fields of every Passenger object
    now,           \* datetime.now()
    last,          \* the last call on the service and its outcome
    given,         \* history: per driver, the sum of the trip ratings passed
                   \* to Driver.complete_ride
    locations      \* the Location objects a caller has constructed

vars == <<drivers, passengers, requests, rides, driverObj, vehicleObj,
          passengerObj, now, last, given, locations>>

\* what the program holds (everything except the record of the last call)
progState == <<drivers, passengers, requests, rides, driverObj, vehicleObj,
               passengerObj>>

\* ----------------------------------------------------- models.py objects
\* mutant: a driver that is constructed unavailable
DriverInit_Busy(current_location) ==
    [current_location |-> current_location,
     is_available |-> FALSE,
     rating |-> Frac(5, 1),
     total_rides |-> 0,
     earnings |-> 0]

\* Driver.__init__ (Person.__init__ sets the location)
DriverInit(current_location) ==
    [current_location |-> current_location,
     is_available |-> TRUE,
     rating |-> Frac(5, 1),
     total_rides |-> 0,
     earnings |-> 0]

\* Vehicle.__init__
VehicleInit == [mileage |-> 0]

\* Passenger.__init__
PassengerInit == [total_rides |-> 0]

\* mutant: a request that is constructed Assigned
RideRequestInit_Assigned(passenger, pickup_loc, dropoff_loc) ==
    [passenger |-> passenger,
     pickup_loc |-> pickup_loc,
     dropoff_loc |-> dropoff_loc,
     status |-> "Assigned"]

\* RideRequest.__init__ (_timestamp is read by to_dict only and is left out)
RideRequestInit(passenger, pickup_loc, dropoff_loc) ==
    [passenger |-> passenger,
     pickup_loc |-> pickup_loc,
     dropoff_loc |-> dropoff_loc,
     status |-> "Pending"]

\* Ride.__init__ ; end_time 0 is None
None == 0

\* mutant: a ride that is constructed with the request's status
RideInit_Pending(request, driver, fare, estimated_distance, start_time) ==
    [request |-> request,
     driver |-> driver,
     start_time |-> start_time,
     end_time |-> None,
     fare |-> fare,
     estimated_distance |-> estimated_distance,
     status |-> "Pending"]

RideInit(request, driver, fare, estimated_distance, start_time) ==
    [request |-> request,
     driver |-> driver,
     start_time |-> start_time,
     end_time |-> None,
     fare |-> fare,
     estimated_distance |-> estimated_distance,
     status |-> "In Progress"]

\* mutant: the new location is not stored
update_location_Keep(person, new_location) == person

\* Person.update_location
update_location(person, new_location) ==
    [person EXCEPT !.current_location = new_location]

\* mutant: the flag is not stored
set_availability_Keep(driver, status) == driver

\* Driver.set_availability
set_availability(driver, status) ==
    [driver EXCEPT !.is_available = status]

\* the sum of two fractions
FracAdd(a, b) == Frac(a[1] * b[2] + b[1] * a[2], a[2] * b[2])

\* the product of a fraction and an integer
FracTimes(a, k) == Frac(a[1] * k, a[2])

\* mutant: the driver is not set available again
DriverCompleteRide_StaysBusy(driver, fare, new_rating) ==
    LET n == driver.total_rides + 1
        sum == Frac(driver.rating[1] * (n - 1) * new_rating[2]
                      + new_rating[1] * driver.rating[2],
                    driver.rating[2] * new_rating[2])
    IN  [driver EXCEPT !.total_rides = n,
                       !.earnings = @ + fare,
                       !.rating = Frac(sum[1], sum[2] * n)]

\* mutant: the old rating weighted by the count after the increment
DriverCompleteRide_InitialCounts(driver, fare, new_rating) ==
    LET n == driver.total_rides + 1
        sum == Frac(driver.rating[1] * n * new_rating[2]
                      + new_rating[1] * driver.rating[2],
                    driver.rating[2] * new_rating[2])
        d1 == [driver EXCEPT !.total_rides = n,
                             !.earnings = @ + fare,
                             !.rating = Frac(sum[1], sum[2] * (n + 1))]
    IN  set_availability(d1, TRUE)

\* Driver.complete_ride
DriverCompleteRide(driver, fare, new_rating) ==
    LET n == driver.total_rides + 1
        sum == Frac(driver.rating[1] * (n - 1) * new_rating[2]
                      + new_rating[1] * driver.rating[2],
                    driver.rating[2] * new_rating[2])
        d1 == [driver EXCEPT !.total_rides = n,
                             !.earnings = @ + fare,
                             !.rating = Frac(sum[1], sum[2] * n)]
    IN  set_availability(d1, TRUE)

\* mutant: the trip is not counted
PassengerCompleteRide_Keep(passenger) == passenger

\* Passenger.complete_ride
PassengerCompleteRide(passenger) ==
    [passenger EXCEPT !.total_rides = @ + 1]

\* Vehicle.add_mileage
add_mileage(vehicle, distance) ==
    [vehicle EXCEPT !.mileage = @ + distance]

\* RideRequest.set_status
set_status(request, status) ==
    [request EXCEPT !.status = status]

\* mutant: the final fare is stored in the ride
RideComplete_StoresFinalFare(ride, end_time, actual_distance, final_fare, rating) ==
    LET req == requests[ride.request]
        d0 == driverObj[ride.driver]
        d1 == update_location(d0, req.dropoff_loc)
    IN  [ride |-> [ride EXCEPT !.end_time = end_time, !.status = "Completed",
                               !.fare = final_fare],
         driver |-> DriverCompleteRide(d1, final_fare, rating),
         vehicle |-> add_mileage(vehicleObj[ride.driver], actual_distance),
         passenger |-> PassengerCompleteRide(passengerObj[req.passenger])]

\* mutant: the driver's complete_ride is not called
RideComplete_DriverLeftOut(ride, end_time, actual_distance, final_fare, rating) ==
    LET req == requests[ride.request]
        d0 == driverObj[ride.driver]
        d1 == update_location(d0, req.dropoff_loc)
    IN  [ride |-> [ride EXCEPT !.end_time = end_time, !.status = "Completed"],
         driver |-> d1,
         vehicle |-> add_mileage(vehicleObj[ride.driver], actual_distance),
         passenger |-> PassengerCompleteRide(passengerObj[req.passenger])]

\* mutant: a guard that makes a second completion a no-op
RideComplete_Guarded(ride, end_time, actual_distance, final_fare, rating) ==
    LET req == requests[ride.request]
        d0 == driverObj[ride.driver]
        d1 == update_location(d0, req.dropoff_loc)
    IN  IF ride.status = "Completed"
        THEN [ride |-> ride,
              driver |-> d0,
              vehicle |-> vehicleObj[ride.driver],
              passenger |-> passengerObj[req.passenger]]
        ELSE [ride |-> [ride EXCEPT !.end_time = end_time,
                                    !.status = "Completed"],
              driver |-> DriverCompleteRide(d1, final_fare, rating),
              vehicle |-> add_mileage(vehicleObj[ride.driver],
                                      actual_distance),
              passenger |-> PassengerCompleteRide(passengerObj[req.passenger])]

\* Ride.complete: the ride, its driver, the driver's vehicle and the
\* request's passenger after the call
RideComplete(ride, end_time, actual_distance, final_fare, rating) ==
    LET req == requests[ride.request]
        d0 == driverObj[ride.driver]
        d1 == update_location(d0, req.dropoff_loc)
    IN  [ride |-> [ride EXCEPT !.end_time = end_time, !.status = "Completed"],
         driver |-> DriverCompleteRide(d1, final_fare, rating),
         vehicle |-> add_mileage(vehicleObj[ride.driver], actual_distance),
         passenger |-> PassengerCompleteRide(passengerObj[req.passenger])]

\* ------------------------------------------------- service.py: algorithms
\* mutant: the thousandths cut off
RoundThousandth_Truncate(x) == x \div 1000

\* round(x / 1000) to an integer, ties away from zero (x >= 0)
RoundThousandth(x) == (x + 500) \div 1000

\* the fare is asked for distances up to MaxFareMetres
MaxFareMetres == 400

\* round(fare, 2) rounds the float, not the decimal: of the distances below
\* 450 m whose fare ends in exactly half a cent (50, 150, 250, 350), these
\* have a float sum below the half and go down (2.545 -> 2.54,
\* 2.815 -> 2.81)
FloatBelowHalf == {50, 350}

\* RideService._estimate_fare: metres -> cents
_estimate_fare(distance_m) ==
    LET estimated_time_min == (distance_m * 60) \div 30   \* in 1/1000 minute
        fare == BASE_FARE * 1000 + distance_m * BASE_RATE
                  + estimated_time_min * TIME_RATE
    IN  IF distance_m \in FloatBelowHalf
        THEN fare \div 1000
        ELSE RoundThousandth(fare)

\* mutant: the availability filter is left out
AvailableDrivers_All(ds) == ds

\* [d for d in self._drivers if d.is_available]
RECURSIVE AvailableDrivers(_)
AvailableDrivers(ds) ==
    IF ds = <<>> THEN <<>>
    ELSE IF driverObj[Head(ds)].is_available
         THEN <<Head(ds)>> \o AvailableDrivers(Tail(ds))
         ELSE AvailableDrivers(Tail(ds))

\* mutant: <= in place of <
NearerThan_OrEqual(distance, min_distance) ==
    min_distance = Infinity \/ distance <= min_distance

\* distance < min_distance
NearerThan(distance, min_distance) ==
    min_distance = Infinity \/ distance < min_distance

\* the loop of _find_nearest_driver over the available drivers
RECURSIVE NearestLoop(_, _, _, _)
NearestLoop(available_drivers, pickup_loc, nearest_driver, min_distance) ==
    IF available_drivers = <<>>
    THEN <<nearest_driver, min_distance>>
    ELSE LET driver == Head(available_drivers)
             distance == calculate_distance(
                             driverObj[driver].current_location, pickup_loc)
         IN  IF NearerThan(distance, min_distance)
             THEN NearestLoop(Tail(available_drivers), pickup_loc,
                              driver, distance)
             ELSE NearestLoop(Tail(available_drivers), pickup_loc,
                              nearest_driver, min_distance)

\* RideService._find_nearest_driver: <<driver, distance>>, or the error
NoDriver == 0

\* mutant: the emptiness test is off by one
_find_nearest_driver_OffByOne(pickup_loc) ==
    LET available_drivers == AvailableDrivers(drivers)
    IN  IF Len(available_drivers) <= 1
        THEN [err |-> "NoDriverFoundError", found |-> <<NoDriver, Infinity>>]
        ELSE [err |-> "",
              found |-> NearestLoop(available_drivers, pickup_loc,
                                    NoDriver, Infinity)]

_find_nearest_driver(pickup_loc) ==
    LET available_drivers == AvailableDrivers(drivers)
    IN  IF available_drivers = <<>>
        THEN [err |-> "NoDriverFoundError", found |-> <<NoDriver, Infinity>>]
        ELSE [err |-> "",
              found |-> NearestLoop(available_drivers, pickup_loc,
                                    NoDriver, Infinity)]

\* AVG_SPEED_KM_PER_MIN = 0.5: metres -> 1/1000 minute
estimated_arrival_time_min(driver_to_pickup_dist) == driver_to_pickup_dist * 2

\* mutant: > in place of <
SoonerThan_Later(arrival_time, min_arrival_time) ==
    min_arrival_time = Infinity \/ arrival_time > min_arrival_time

\* estimated_arrival_time_min < min_arrival_time
SoonerThan(arrival_time, min_arrival_time) ==
    min_arrival_time = Infinity \/ arrival_time < min_arrival_time

\* the loop of _optimized_driver_matching over the available drivers
RECURSIVE OptimizedLoop(_, _, _, _)
OptimizedLoop(available_drivers, pickup_loc, best_driver, min_arrival_time) ==
    IF available_drivers = <<>>
    THEN best_driver
    ELSE LET driver == Head(available_drivers)
             driver_to_pickup_dist ==
                 calculate_distance(driverObj[driver].current_location,
                                    pickup_loc)
             arrival == estimated_arrival_time_min(driver_to_pickup_dist)
         IN  IF SoonerThan(arrival, min_arrival_time)
             THEN OptimizedLoop(Tail(available_drivers), pickup_loc,
                                driver, arrival)
             ELSE OptimizedLoop(Tail(available_drivers), pickup_loc,
                                best_driver, min_arrival_time)

\* RideService._optimized_driver_matching (1.1utils.py):
\* <<driver, distance>>, or the error
_optimized_driver_matching(request) ==
    LET available_drivers == AvailableDrivers(drivers)
    IN  IF available_drivers = <<>>
        THEN [err |-> "NoDriverFoundError", found |-> <<NoDriver, Infinity>>]
        ELSE LET best_driver == OptimizedLoop(available_drivers,
                                    request.pickup_loc, NoDriver, Infinity)
             IN  [err |-> "",
                  found |-> <<best_driver,
                              calculate_distance(
                                  driverObj[best_driver].current_location,
                                  request.pickup_loc)>>]

\* mutant: the status filter is left out
CompletedFrom_All(k) ==
    IF k > Len(rides) THEN <<>> ELSE [i \in 1..(Len(rides) - k + 1) |-> i + k - 1]

\* [r for r in self._rides if r._status == "Completed"], as positions in _rides
RECURSIVE CompletedFrom(_)
CompletedFrom(k) ==
    IF k > Len(rides) THEN <<>>
    ELSE IF rides[k].status = "Completed"
         THEN <<k>> \o CompletedFrom(k + 1)
         ELSE CompletedFrom(k + 1)

completed_rides == CompletedFrom(1)

\* the sort keys: lambda r: r.driver._rating and lambda r: r.estimated_distance
RatingKey(k) == driverObj[rides[k].driver].rating
DistanceKey(k) == <<rides[k].estimated_distance, 1>>

\* mutant: reverse ignored
Before_Ascending(kx, ky, reverse) == FracLess(kx, ky)

\* x goes before y in the result of sorted(..., reverse=reverse)
Before(kx, ky, reverse) ==
    IF reverse THEN FracLess(ky, kx) ELSE FracLess(kx, ky)

\* the key function given to sorted()
SortKey(sort_by, k) ==
    IF sort_by = "rating" THEN RatingKey(k) ELSE DistanceKey(k)

\* sorted() is stable, with reverse=True too: an element is placed after
\* the elements already placed that do not have to come after it
RECURSIVE InsertSorted(_, _, _, _)
InsertSorted(x, out, sort_by, reverse) ==
    IF out = <<>> THEN <<x>>
    ELSE IF Before(SortKey(sort_by, x), SortKey(sort_by, Head(out)), reverse)
         THEN <<x>> \o out
         ELSE <<Head(out)>> \o InsertSorted(x, Tail(out), sort_by, reverse)

RECURSIVE SortedFrom(_, _, _, _)
SortedFrom(in, out, sort_by, reverse) ==
    IF in = <<>> THEN out
    ELSE SortedFrom(Tail(in), InsertSorted(Head(in), out, sort_by, reverse),
                    sort_by, reverse)

sorted(seq, sort_by, reverse) == SortedFrom(seq, <<>>, sort_by, reverse)

\* mutant: the sum of what the rides' drivers have earned
SumFare_Earnings(seq) ==
    IF seq = <<>> THEN 0 ELSE driverObj[rides[Head(seq)].driver].earnings

\* sum(r.fare for r in completed_rides)
RECURSIVE SumFare(_)
SumFare(seq) ==
    IF seq = <<>> THEN 0 ELSE rides[Head(seq)].fare + SumFare(Tail(seq))

\* sum((r._end_time - r._start_time for r in completed_rides), timedelta())
RECURSIVE SumTime(_)
SumTime(seq) ==
    IF seq = <<>> THEN 0
    ELSE (rides[Head(seq)].end_time - rides[Head(seq)].start_time)
           + SumTime(Tail(seq))

\* timedelta / int rounds to the nearest tick, ties to even
DivideAndRound(a, b) ==
    LET q == a \div b
        r == 2 * (a % b)
    IN  IF r > b \/ (r = b /\ q % 2 = 1) THEN q + 1 ELSE q

\* ------------------------------------------------------ the last call
Call(op) ==
    [op |-> op, err |-> "", request |-> 0, ride |-> 0, driver |-> NoDriver,
     fare |-> 0, distance |-> 0, rating |-> <<0, 1>>,
     sort_by |-> "", sorted |-> <<>>,
     total_trips |-> 0, total_fare |-> 0, avg_trip_time |-> 0,
     passenger |-> 0, pickup_loc |-> Location(0, 0),
     dropoff_loc |-> Location(0, 0), reverse |-> TRUE,
     lat |-> 0, lon |-> 0, location |-> 0, value |-> 0]

\* -------------------------------------------------------------- Init
Init ==
    /\ drivers = <<>>
    /\ passengers = <<>>
    /\ requests = <<>>
    /\ rides = <<>>
    /\ driverObj = [d \in DriverObjs |-> DriverInit(DriverStart(d))]
    /\ vehicleObj = [d \in DriverObjs |-> VehicleInit]
    /\ passengerObj = [p \in PassengerObjs |-> PassengerInit]
    /\ now = 1
    /\ given = [d \in DriverObjs |-> Frac(0, 1)]
    /\ locations = <<>>
    /\ last = Call("__init__")

\* ------------------------------------------------------------ actions
\* RideService.add_driver
add_driver(driver) ==
    /\ Len(drivers) < MaxDrivers
    /\ drivers' = Append(drivers, driver)
    /\ last' = [Call("add_driver") EXCEPT !.driver = driver]
    /\ UNCHANGED <<passengers, requests, rides, driverObj, vehicleObj,
                   passengerObj, now, given, locations>>

\* RideService.add_passenger
add_passenger(passenger) ==
    /\ Len(passengers) < MaxPassengers
    /\ passengers' = Append(passengers, passenger)
    /\ last' = Call("add_passenger")
    /\ UNCHANGED <<drivers, requests, rides, driverObj, vehicleObj,
                   passengerObj, now, given, locations>>

\* mutant: "or" in place of "and" in the test of the two points
request_ride_Or(passenger, pickup_loc, dropoff_loc) ==
    IF \/ pickup_loc.latitude = dropoff_loc.latitude
       \/ pickup_loc.longitude = dropoff_loc.longitude
    THEN /\ last' = [Call("request_ride") EXCEPT
                        !.err = "InvalidRequestError",
                        !.passenger = passenger,
                        !.pickup_loc = pickup_loc,
                        !.dropoff_loc = dropoff_loc]
         /\ UNCHANGED <<drivers, passengers, requests, rides, driverObj,
                        vehicleObj, passengerObj, now, given, locations>>
    ELSE /\ Len(requests) < MaxRequests
         /\ requests' = Append(requests,
                RideRequestInit(passenger, pickup_loc, dropoff_loc))
         /\ last' = [Call("request_ride") EXCEPT
                        !.request = Len(requests) + 1,
                        !.passenger = passenger,
                        !.pickup_loc = pickup_loc,
                        !.dropoff_loc = dropoff_loc]
         /\ UNCHANGED <<drivers, passengers, rides, driverObj, vehicleObj,
                        passengerObj, now, given, locations>>

\* RideService.request_ride
request_ride(passenger, pickup_loc, dropoff_loc) ==
    IF /\ pickup_loc.latitude = dropoff_loc.latitude
       /\ pickup_loc.longitude = dropoff_loc.longitude
    THEN /\ last' = [Call("request_ride") EXCEPT
                        !.err = "InvalidRequestError",
                        !.passenger = passenger,
                        !.pickup_loc = pickup_loc,
                        !.dropoff_loc = dropoff_loc]
         /\ UNCHANGED <<drivers, passengers, requests, rides, driverObj,
                        vehicleObj, passengerObj, now, given, locations>>
    ELSE /\ Len(requests) < MaxRequests
         /\ requests' = Append(requests,
                RideRequestInit(passenger, pickup_loc, dropoff_loc))
         /\ last' = [Call("request_ride") EXCEPT
                        !.request = Len(requests) + 1,
                        !.passenger = passenger,
                        !.pickup_loc = pickup_loc,
                        !.dropoff_loc = dropoff_loc]
         /\ UNCHANGED <<drivers, passengers, rides, driverObj, vehicleObj,
                        passengerObj, now, given, locations>>

\* mutant: the matched driver is moved to the pickup
assign_ride_ToPickup(request) ==
    LET res == _find_nearest_driver(requests[request].pickup_loc)
        nearest_driver == res.found[1]
        driver_distance == res.found[2]
        ride_distance == calculate_distance(requests[request].pickup_loc,
                                            requests[request].dropoff_loc)
        fare == _estimate_fare(ride_distance)
        new_ride == RideInit(request, nearest_driver, fare, ride_distance, now)
    IN  IF res.err # ""
        THEN /\ last' = [Call("assign_ride") EXCEPT !.err = res.err,
                                                    !.request = request]
             /\ UNCHANGED <<drivers, passengers, requests, rides, driverObj,
                            vehicleObj, passengerObj, now, given, locations>>
        ELSE /\ Len(rides) < MaxRides
             /\ rides' = Append(rides, new_ride)
             /\ driverObj' = [driverObj EXCEPT ![nearest_driver] =
                                  set_availability(
                                      update_location(@,
                                          requests[request].pickup_loc),
                                      FALSE)]
             /\ requests' = [requests EXCEPT ![request] =
                                  set_status(@, "Assigned")]
             /\ now' = now + 1
             /\ last' = [Call("assign_ride") EXCEPT
                            !.request = request,
                            !.ride = Len(rides) + 1,
                            !.driver = nearest_driver,
                            !.distance = driver_distance,
                            !.fare = fare]
             /\ UNCHANGED <<drivers, passengers, vehicleObj, passengerObj,
                            given, locations>>

\* RideService.assign_ride
assign_ride(request) ==
    LET res == _find_nearest_driver(requests[request].pickup_loc)
        nearest_driver == res.found[1]
        driver_distance == res.found[2]
        ride_distance == calculate_distance(requests[request].pickup_loc,
                                            requests[request].dropoff_loc)
        fare == _estimate_fare(ride_distance)
        new_ride == RideInit(request, nearest_driver, fare, ride_distance, now)
    IN  IF res.err # ""
        THEN /\ last' = [Call("assign_ride") EXCEPT !.err = res.err,
                                                    !.request = request]
             /\ UNCHANGED <<drivers, passengers, requests, rides, driverObj,
                            vehicleObj, passengerObj, now, given, locations>>
        ELSE /\ Len(rides) < MaxRides
             /\ rides' = Append(rides, new_ride)
             /\ driverObj' = [driverObj EXCEPT ![nearest_driver] =
                                  set_availability(@, FALSE)]
             /\ requests' = [requests EXCEPT ![request] =
                                  set_status(@, "Assigned")]
             /\ now' = now + 1
             /\ last' = [Call("assign_ride") EXCEPT
                            !.request = request,
                            !.ride = Len(rides) + 1,
                            !.driver = nearest_driver,
                            !.distance = driver_distance,
                            !.fare = fare]
             /\ UNCHANGED <<drivers, passengers, vehicleObj, passengerObj,
                            given, locations>>

\* completions so far (every completion adds one to some driver's count)
RECURSIVE SumTotalRides(_)
SumTotalRides(S) ==
    IF S = {} THEN 0
    ELSE LET d == CHOOSE x \in S : TRUE
         IN  driverObj[d].total_rides + SumTotalRides(S \ {d})

\* RideService.complete_ride
complete_ride(ride, rating, actual_distance, final_fare) ==
    LET r == rides[ride]
        res == RideComplete(r, now, actual_distance, final_fare, rating)
    IN  /\ SumTotalRides(DriverObjs) < MaxCompletions
        /\ rides' = [rides EXCEPT ![ride] = res.ride]
        /\ driverObj' = [driverObj EXCEPT ![r.driver] = res.driver]
        /\ vehicleObj' = [vehicleObj EXCEPT ![r.driver] = res.vehicle]
        /\ passengerObj' = [passengerObj EXCEPT
                               ![requests[r.request].passenger] = res.passenger]
        /\ now' = now + 1
        /\ last' = [Call("complete_ride") EXCEPT
                       !.ride = ride,
                       !.driver = r.driver,
                       !.request = r.request,
                       !.rating = rating,
                       !.distance = actual_distance,
                       !.fare = final_fare]
        /\ given' = [given EXCEPT ![r.driver] = FracAdd(@, rating)]
        /\ UNCHANGED <<drivers, passengers, requests, locations>>

\* RideService.sort_completed_rides
sort_completed_rides(sort_by, reverse) ==
    LET sorted_rides ==
            IF sort_by = "rating"
            THEN sorted(completed_rides, "rating", reverse)
            ELSE IF sort_by = "distance"
                 THEN sorted(completed_rides, "distance", reverse)
                 ELSE <<>>
    IN  /\ last' = [Call("sort_completed_rides") EXCEPT
                       !.sort_by = sort_by, !.reverse = reverse,
                       !.sorted = sorted_rides]
        /\ UNCHANGED <<drivers, passengers, requests, rides, driverObj,
                       vehicleObj, passengerObj, now, given, locations>>

\* RideService.generate_simple_analytics
generate_simple_analytics ==
    LET total_trips == Len(completed_rides)
        total_fare == SumFare(completed_rides)
        avg_trip_time ==
            IF total_trips > 0
            THEN DivideAndRound(SumTime(completed_rides), total_trips)
            ELSE 0
    IN  /\ last' = [Call("generate_simple_analytics") EXCEPT
                       !.total_trips = total_trips,
                       !.total_fare = total_fare,
                       !.avg_trip_time = avg_trip_time]
        /\ UNCHANGED <<drivers, passengers, requests, rides, driverObj,
                       vehicleObj, passengerObj, now, given, locations>>

Next ==
    \/ \E d \in DriverObjs : add_driver(d)
    \/ \E p \in PassengerObjs : add_passenger(p)
    \/ \E p \in PassengerObjs, a \in Pickups, b \in Dropoffs :
          request_ride(p, a, b)
    \/ \E i \in 1..Len(requests) : assign_ride(i)
    \/ \E k \in 1..Len(rides), x \in Ratings, m \in ActualDistances,
          f \in FinalFares : complete_ride(k, x, m, f)
    \/ \E key \in SortKeys, reverse \in Reverses :
          sort_completed_rides(key, reverse)
    \/ generate_simple_analytics

Spec == Init /\ [][Next]_vars

\* complete_ride is handed whatever the caller passes: nothing in
\* RideService.complete_ride, Ride.complete, Driver.complete_ride or
\* Vehicle.add_mileage looks at the rating or at the distance
AnyRatings == {Frac(6, 1), Frac(-1, 1)}
AnyDistances == {11200, -11200}

NextAny ==
    \/ \E d \in DriverObjs : add_driver(d)
    \/ \E p \in PassengerObjs : add_passenger(p)
    \/ \E p \in PassengerObjs, a \in Pickups, b \in Dropoffs :
          request_ride(p, a, b)
    \/ \E q \in DOMAIN requests : assign_ride(q)
    \/ \E r \in DOMAIN rides, g \in AnyRatings, m \in AnyDistances,
          f \in FinalFares : complete_ride(r, g, m, f)

SpecAny == Init /\ [][NextAny]_vars

\* rides of different estimated distances, completed and sorted
SortPickups == {LocP1, LocDrop}

NextSort ==
    \/ \E d \in DriverObjs : add_driver(d)
    \/ \E p \in PassengerObjs, a \in SortPickups, b \in Dropoffs :
          request_ride(p, a, b)
    \/ \E q \in DOMAIN requests : assign_ride(q)
    \/ \E r \in DOMAIN rides, g \in Ratings, m \in ActualDistances,
          f \in FinalFares : complete_ride(r, g, m, f)
    \/ \E key \in SortKeys, reverse \in Reverses :
          sort_completed_rides(key, reverse)

SpecSort == Init /\ [][NextSort]_vars

\* rides to different dropoffs, so that completed rides leave their
\* drivers at different points
MoveDropoffs == {LocEast, LocDrop}

NextMove ==
    \/ \E d \in DriverObjs : add_driver(d)
    \/ \E p \in PassengerObjs, b \in MoveDropoffs :
          request_ride(p, LocP1, b)
    \/ \E q \in DOMAIN requests : assign_ride(q)
    \/ \E r \in DOMAIN rides, g \in Ratings, m \in ActualDistances,
          f \in FinalFares : complete_ride(r, g, m, f)
    \/ generate_simple_analytics

SpecMove == Init /\ [][NextMove]_vars

\* a caller that adds each driver once and completes each ride once
NextOnce ==
    \/ \E d \in DriverObjs :
          /\ \A i \in DOMAIN drivers : drivers[i] # d
          /\ add_driver(d)
    \/ \E p \in PassengerObjs : add_passenger(p)
    \/ \E p \in PassengerObjs, a \in Pickups, b \in Dropoffs :
          request_ride(p, a, b)
    \/ \E q \in DOMAIN requests : assign_ride(q)
    \/ \E r \in DOMAIN rides, g \in Ratings, m \in ActualDistances,
          f \in FinalFares :
          /\ rides[r].status = "In Progress"
          /\ complete_ride(r, g, m, f)

SpecOnce == Init /\ [][NextOnce]_vars

\* RideService._estimate_fare called on its own
estimate_fare(distance_km) ==
    /\ last' = [Call("_estimate_fare") EXCEPT
                    !.distance = distance_km,
                    !.fare = _estimate_fare(distance_km)]
    /\ UNCHANGED <<drivers, passengers, requests, rides, driverObj,
                   vehicleObj, passengerObj, now, given, locations>>

\* every distance up to MaxFareMetres, and the two trips of main.py
FareDistances ==
    (0..MaxFareMetres) \cup {calculate_distance(LocP1, LocEast),
                             calculate_distance(LocP1, LocDrop)}

NextFare == \E m \in FareDistances : estimate_fare(m)

SpecFare == Init /\ [][NextFare]_vars

\* a caller constructs Location objects and uses them
MaxLocations == 2
Latitudes == {-900001, -900000, 410345, 900000, 900001}
Longitudes == {-1800001, -1800000, 290000, 1800000, 1800001}

\* loc = Location(lat, lon)
NewLocation(lat, lon) ==
    LET res == Location__init__(lat, lon)
    IN  /\ Len(locations) < MaxLocations
        /\ last' = [Call("Location") EXCEPT
                       !.err = res.err, !.lat = lat, !.lon = lon,
                       !.location = IF res.err = "" THEN Len(locations) + 1
                                    ELSE 0]
        /\ locations' = IF res.err = "" THEN Append(locations, res.obj)
                        ELSE locations
        /\ UNCHANGED <<drivers, passengers, requests, rides, driverObj,
                       vehicleObj, passengerObj, now, given>>

\* loc.latitude
latitude(loc) ==
    /\ last' = [Call("latitude") EXCEPT
                   !.location = loc, !.value = locations[loc].latitude]
    /\ UNCHANGED <<drivers, passengers, requests, rides, driverObj,
                   vehicleObj, passengerObj, now, given, locations>>

\* loc.longitude
longitude(loc) ==
    /\ last' = [Call("longitude") EXCEPT
                   !.location = loc, !.value = locations[loc].longitude]
    /\ UNCHANGED <<drivers, passengers, requests, rides, driverObj,
                   vehicleObj, passengerObj, now, given, locations>>

\* loc.latitude = x or loc.longitude = x: the properties have no setter
set_coordinate(loc, x) ==
    /\ last' = [Call("setattr") EXCEPT
                   !.err = "AttributeError", !.location = loc, !.value = x]
    /\ UNCHANGED <<drivers, passengers, requests, rides, driverObj,
                   vehicleObj, passengerObj, now, given, locations>>

NextLocation ==
    \/ \E lat \in Latitudes, lon \in Longitudes : NewLocation(lat, lon)
    \/ \E loc \in DOMAIN locations : latitude(loc)
    \/ \E loc \in DOMAIN locations : longitude(loc)
    \/ \E loc \in DOMAIN locations, x \in Latitudes : set_coordinate(loc, x)

SpecLocation == Init /\ [][NextLocation]_vars

\* calculate_distance(loc1, loc2) on two Location objects the caller made
call_calculate_distance(loc1, loc2) ==
    LET a == locations[loc1]
        b == locations[loc2]
    IN  /\ last' = IF <<a, b>> \in MathDomainError
                   THEN [Call("calculate_distance") EXCEPT
                            !.err = "ValueError",
                            !.pickup_loc = a, !.dropoff_loc = b]
                   ELSE [Call("calculate_distance") EXCEPT
                            !.pickup_loc = a, !.dropoff_loc = b,
                            !.distance = calculate_distance(a, b)]
        /\ UNCHANGED <<drivers, passengers, requests, rides, driverObj,
                       vehicleObj, passengerObj, now, given, locations>>

NextDistance ==
    \/ \E p \in DistancePoints : NewLocation(p.latitude, p.longitude)
    \/ \E i \in DOMAIN locations, j \in DOMAIN locations :
          call_calculate_distance(i, j)

SpecDistance == Init /\ [][NextDistance]_vars

\* request_ride alone, with every pair of points as pickup and dropoff
NextRequest ==
    \E p \in PassengerObjs, a \in Locs, b \in Locs : request_ride(p, a, b)

SpecRequest == Init /\ [][NextRequest]_vars

\* ------------------------------------------------------------ claims
AssignCall == last'.op = "assign_ride"
AssignOk == last'.op = "assign_ride" /\ last'.err = ""
CompleteCall == last'.op = "complete_ride"

\* no driver of the collection is available
NoDriverAvailable ==
    \A i \in DOMAIN drivers : ~driverObj[drivers[i]].is_available

\* distance of driver d, where it is now, from the pickup of request q
PickupDistance(d, q) ==
    calculate_distance(driverObj[d].current_location, requests[q].pickup_loc)

CompletedRides == {k \in DOMAIN rides : rides[k].status = "Completed"}
InProgressRides == {k \in DOMAIN rides : rides[k].status = "In Progress"}

\* C1: no driver is the driver of two rides that are In Progress at the
\* same time, under any sequence of calls on one RideService.
C1_OneRideInProgressPerDriver ==
    \A i, j \in InProgressRides : i # j => rides[i].driver # rides[j].driver

\* C2: with no available driver in the collection, assign_ride fails with
\* NoDriverFoundError and nothing the service holds changes: the four
\* collections, the request's status and every driver's availability.
C2_FailedAssignMutatesNothing ==
    [][(AssignCall /\ NoDriverAvailable) =>
          /\ last'.err = "NoDriverFoundError"
          /\ UNCHANGED progState
          /\ requests'[last'.request].status = requests[last'.request].status
          /\ \A d \in DriverObjs :
                driverObj'[d].is_available = driverObj[d].is_available]_vars

C2_Witness ==
    /\ last.op = "assign_ride"
    /\ last.err = "NoDriverFoundError"
    /\ drivers # <<>>
    /\ InProgressRides # {}
    /\ requests[last.request].status = "Pending"

\* C3: a successful assign_ride appends exactly one ride (In Progress, no
\* end time, the matched driver, the given request), makes the matched
\* driver unavailable, makes the request Assigned and leaves every other
\* driver's availability as it was.
C3_SuccessfulAssignEffects ==
    [][AssignOk =>
          /\ Len(rides') = Len(rides) + 1
          /\ SubSeq(rides', 1, Len(rides)) = rides
          /\ rides'[Len(rides')].status = "In Progress"
          /\ rides'[Len(rides')].end_time = None
          /\ rides'[Len(rides')].driver = last'.driver
          /\ rides'[Len(rides')].request = last'.request
          /\ last'.ride = Len(rides')
          /\ ~driverObj'[last'.driver].is_available
          /\ requests'[last'.request].status = "Assigned"
          /\ \A d \in DriverObjs \ {last'.driver} :
                driverObj'[d].is_available = driverObj[d].is_available]_vars

C3_Witness ==
    /\ last.op = "assign_ride"
    /\ last.err = ""
    /\ Len(rides) >= 2
    /\ \E i \in DOMAIN drivers :
          drivers[i] # last.driver /\ driverObj[drivers[i]].is_available

\* C4: the driver assign_ride chooses was available at the call and is at
\* the least distance from the pickup among the available drivers of the
\* collection; among those at that least distance it is the one that comes
\* first in the collection.
C4_NearestFirstAdded ==
    [][AssignOk =>
          LET d == last'.driver
              q == last'.request
          IN  /\ \E i \in DOMAIN drivers : drivers[i] = d
              /\ driverObj[d].is_available
              /\ last'.distance = PickupDistance(d, q)
              /\ \A i \in DOMAIN drivers :
                    driverObj[drivers[i]].is_available =>
                        PickupDistance(d, q) <= PickupDistance(drivers[i], q)
              /\ \A i \in DOMAIN drivers :
                    ( /\ driverObj[drivers[i]].is_available
                      /\ drivers[i] # d
                      /\ PickupDistance(drivers[i], q) = PickupDistance(d, q) )
                    => \E j \in 1..(i - 1) : drivers[j] = d]_vars

\* the chosen driver shared its place with another available driver
C4_Witness ==
    /\ last.op = "assign_ride"
    /\ last.err = ""
    /\ \E i \in DOMAIN drivers :
          /\ drivers[i] # last.driver
          /\ driverObj[drivers[i]].is_available
          /\ driverObj[drivers[i]].current_location
                = driverObj[last.driver].current_location

C6_CompleteEffects ==
    [][(CompleteCall /\ rides[last'.ride].status = "In Progress") =>
          LET k == last'.ride
              d == rides[k].driver
              q == requests[rides[k].request]
          IN  /\ rides'[k].status = "Completed"
              /\ rides'[k].end_time # None
              /\ driverObj'[d].current_location = q.dropoff_loc
              /\ driverObj'[d].is_available
              /\ driverObj'[d].total_rides = driverObj[d].total_rides + 1
              /\ driverObj'[d].earnings = driverObj[d].earnings + last'.fare
              /\ vehicleObj'[d].mileage
                    = vehicleObj[d].mileage + last'.distance
              /\ passengerObj'[q.passenger].total_rides
                    = passengerObj[q.passenger].total_rides + 1]_vars

\* every completion so far was the first one of its ride
C6_Witness ==
    /\ last.op = "complete_ride"
    /\ Cardinality(CompletedRides) = 2
    /\ SumTotalRides(DriverObjs) = 2

\* C7: complete_ride on a ride that is already Completed does not fail and
\* counts again: 1 more ride and final_fare more earnings for the driver,
\* actual_distance more mileage, 1 more trip for the passenger; the ride
\* stays Completed.
C7_SecondCompleteCountsAgain ==
    [][(CompleteCall /\ rides[last'.ride].status = "Completed") =>
          LET k == last'.ride
              d == rides[k].driver
              q == requests[rides[k].request]
          IN  /\ last'.err = ""
              /\ rides'[k].status = "Completed"
              /\ driverObj'[d].total_rides = driverObj[d].total_rides + 1
              /\ driverObj'[d].earnings = driverObj[d].earnings + last'.fare
              /\ vehicleObj'[d].mileage
                    = vehicleObj[d].mileage + last'.distance
              /\ passengerObj'[q.passenger].total_rides
                    = passengerObj[q.passenger].total_rides + 1]_vars

\* a ride was completed twice
C7_Witness ==
    /\ last.op = "complete_ride"
    /\ Cardinality(CompletedRides) = 1
    /\ driverObj[last.driver].total_rides = 2
    /\ passengerObj[requests[last.request].passenger].total_rides = 2

\* C8: a ride is In Progress or Completed, a new ride is In Progress, and
\* a Completed ride stays Completed whatever is called afterwards.
C8_RideLifecycle ==
    /\ [](\A k \in DOMAIN rides :
             rides[k].status \in {"In Progress", "Completed"})
    /\ [][/\ \A k \in DOMAIN rides' \ DOMAIN rides :
                rides'[k].status = "In Progress"
          /\ \A k \in DOMAIN rides :
                rides[k].status = "Completed" =>
                    k \in DOMAIN rides' /\ rides'[k].status = "Completed"]_vars

\* a ride was completed and its request was assigned again afterwards
C8_Witness ==
    /\ last.op = "assign_ride"
    /\ last.err = ""
    /\ \E k \in CompletedRides : rides[k].request = last.request

\* C9: a request is Pending or Assigned, a new request is Pending, and a
\* status changes only from Pending to Assigned, in a successful
\* assign_ride of that request; an Assigned request stays Assigned.
C9_RequestLifecycle ==
    /\ [](\A i \in DOMAIN requests :
             requests[i].status \in {"Pending", "Assigned"})
    /\ [][/\ \A i \in DOMAIN requests' \ DOMAIN requests :
                requests'[i].status = "Pending"
          /\ \A i \in DOMAIN requests :
                /\ i \in DOMAIN requests'
                /\ requests[i].status = "Assigned" =>
                      requests'[i].status = "Assigned"
                /\ requests'[i].status # requests[i].status =>
                      /\ requests[i].status = "Pending"
                      /\ requests'[i].status = "Assigned"
                      /\ AssignOk
                      /\ last'.request = i]_vars

\* the ride of an Assigned request was completed
C9_Witness ==
    /\ last.op = "complete_ride"
    /\ requests[last.request].status = "Assigned"
    /\ \E i \in DOMAIN requests : requests[i].status = "Pending"

\* C10: every driver starts available; a driver becomes unavailable only
\* as the driver matched by a successful assign_ride and becomes available
\* only as the driver of the ride given to complete_ride; no other call
\* changes an availability.
C10_AvailabilityChanges ==
    /\ \A d \in DriverObjs : driverObj[d].is_available
    /\ [][\A d \in DriverObjs :
             driverObj'[d].is_available # driverObj[d].is_available =>
                 IF driverObj[d].is_available
                 THEN AssignOk /\ last'.driver = d
                 ELSE /\ CompleteCall
                      /\ rides[last'.ride].driver = d]_vars

\* a driver is back after a completion while another one is still busy
C10_Witness ==
    /\ last.op = "complete_ride"
    /\ driverObj[last.driver].is_available
    /\ \E i \in DOMAIN drivers : ~driverObj[drivers[i]].is_available

\* C11: request_ride fails with InvalidRequestError and stores nothing when
\* pickup and dropoff have the same latitude and the same longitude; in
\* every other case it appends one Pending request and returns it; so
\* every stored request has a pickup that differs from its dropoff.
C11_RequestRide ==
    /\ [](\A i \in DOMAIN requests :
             requests[i].pickup_loc # requests[i].dropoff_loc)
    /\ [][last'.op = "request_ride" =>
             IF /\ last'.pickup_loc.latitude = last'.dropoff_loc.latitude
                /\ last'.pickup_loc.longitude = last'.dropoff_loc.longitude
             THEN /\ last'.err = "InvalidRequestError"
                  /\ UNCHANGED progState
             ELSE /\ last'.err = ""
                  /\ requests' = Append(requests,
                         [passenger |-> last'.passenger,
                          pickup_loc |-> last'.pickup_loc,
                          dropoff_loc |-> last'.dropoff_loc,
                          status |-> "Pending"])
                  /\ last'.request = Len(requests')
                  /\ UNCHANGED <<drivers, passengers, rides, driverObj,
                                 vehicleObj, passengerObj>>]_vars

\* a request that differs in longitude only was stored after one that
\* differs in latitude only
C11_Witness ==
    /\ last.op = "request_ride"
    /\ last.err = ""
    /\ last.pickup_loc.latitude = last.dropoff_loc.latitude
    /\ last.pickup_loc.longitude # last.dropoff_loc.longitude
    /\ Len(requests) = 2
    /\ requests[1].pickup_loc.longitude = requests[1].dropoff_loc.longitude
    /\ requests[1].pickup_loc.latitude # requests[1].dropoff_loc.latitude

\* C12: each completion sets the driver's rating to
\* (old_rating * (n-1) + trip_rating) / n, n the driver's ride count after
\* the increment; so after k >= 1 completions the rating times k is the sum
\* of the k trip ratings given, the initial 5.0 carrying no weight.
C12_RatingRecurrence ==
    /\ [](\A d \in DriverObjs :
             IF driverObj[d].total_rides = 0
             THEN driverObj[d].rating = Frac(5, 1)
             ELSE FracTimes(driverObj[d].rating, driverObj[d].total_rides)
                     = given[d])
    /\ [][CompleteCall =>
             LET d == last'.driver
                 n == driverObj'[d].total_rides
             IN  /\ n = driverObj[d].total_rides + 1
                 /\ FracTimes(driverObj'[d].rating, n)
                       = FracAdd(FracTimes(driverObj[d].rating, n - 1),
                                 last'.rating)]_vars

\* a driver has completed two rides with different trip ratings
C12_Witness ==
    /\ last.op = "complete_ride"
    /\ driverObj[last.driver].total_rides = 2
    /\ driverObj[last.driver].rating = Frac(79, 20)
    /\ given[last.driver] = Frac(79, 10)

\* C13: in every reachable state every driver's rating lies in 0..5,
\* whatever rating values are passed to complete_ride.
C13_RatingInRange ==
    \A d \in DriverObjs :
        /\ ~FracLess(driverObj[d].rating, Frac(0, 1))
        /\ ~FracLess(Frac(5, 1), driverObj[d].rating)

\* the result of a sort call lists the Completed rides, each once
SortedIsCompleted(out) ==
    /\ Len(out) = Cardinality(CompletedRides)
    /\ {out[i] : i \in DOMAIN out} = CompletedRides

\* the keys of the result go down (descending) or up
SortedOrder(out, sort_by, descending) ==
    \A i, j \in DOMAIN out :
        i < j => IF descending
                 THEN ~FracLess(SortKey(sort_by, out[i]), SortKey(sort_by, out[j]))
                 ELSE ~FracLess(SortKey(sort_by, out[j]), SortKey(sort_by, out[i]))

SortCall == last'.op = "sort_completed_rides"

C15_CollectionsUnique ==
    /\ \A i, j \in DOMAIN drivers : i # j => drivers[i] # drivers[j]
    /\ \A i, j \in DOMAIN passengers : i # j => passengers[i] # passengers[j]

\* C16: a vehicle's mileage starts at 0, never decreases, and is changed
\* only by complete_ride, by the actual_distance given; request_ride and
\* assign_ride leave every vehicle's mileage unchanged.
C16_MileageMonotone ==
    /\ \A d \in DriverObjs : vehicleObj[d].mileage = 0
    /\ [][\A d \in DriverObjs :
             /\ vehicleObj'[d].mileage >= vehicleObj[d].mileage
             /\ vehicleObj'[d].mileage # vehicleObj[d].mileage =>
                   /\ CompleteCall
                   /\ d = last'.driver
                   /\ vehicleObj'[d].mileage
                         = vehicleObj[d].mileage + last'.distance]_vars

AnalyticsCall == last'.op = "generate_simple_analytics"

\* C17: generate_simple_analytics is a pure read: it counts exactly the
\* Completed rides and leaves the four collections and every entity's
\* fields unchanged; with no completed ride it reports count 0 and a zero
\* mean duration without failing.
C17_AnalyticsPureRead ==
    [][AnalyticsCall =>
          /\ UNCHANGED progState
          /\ last'.err = ""
          /\ last'.total_trips = Cardinality(CompletedRides)
          /\ CompletedRides = {} =>
                /\ last'.total_trips = 0
                /\ last'.avg_trip_time = 0]_vars

\* the report counts the one Completed ride and not the ride In Progress
C17_Witness ==
    /\ last.op = "generate_simple_analytics"
    /\ last.total_trips = 1
    /\ Cardinality(CompletedRides) = 1
    /\ InProgressRides # {}

FareCall == last'.op = "_estimate_fare"

\* 2.50 + 0.50*d + 0.20*((d/30)*60), in 1/1000 cent for d in metres
FareFormula(m) == 250000 + 50 * m + 20 * ((m * 60) \div 30)

\* the fare is a function of the distance alone, fare(0) = 2.50, and the
\* fare is the formula rounded to 2 decimals (to a cent)
FareIsRoundedFormula ==
    /\ UNCHANGED progState
    /\ last'.distance = 0 => last'.fare = 250
    /\ Abs(last'.fare * 1000 - FareFormula(last'.distance)) <= 500
    /\ (last.op = "_estimate_fare" /\ last.distance = last'.distance)
          => last.fare = last'.fare

\* C18 as stated: the fare is the rounded formula, fare(0) = 2.50, and
\* d1 < d2 implies fare(d1) < fare(d2).
C18_FareIncreasing ==
    [][FareCall =>
          /\ FareIsRoundedFormula
          /\ (last.op = "_estimate_fare" /\ last.distance < last'.distance)
                => last.fare < last'.fare]_vars

\* C18 amended: the fare is the rounded formula, fare(0) = 2.50, and the
\* fare never goes down with the distance: d1 < d2 implies
\* fare(d1) <= fare(d2).
C18_FareNonDecreasing ==
    [][FareCall =>
          /\ FareIsRoundedFormula
          /\ (last.op = "_estimate_fare" /\ last.distance < last'.distance)
                => last.fare <= last'.fare]_vars

\* the fare of the trip of main.py: 2.50 + 0.50*7.437 + 0.20*14.874 = 9.19
C18_Witness ==
    /\ last.op = "_estimate_fare"
    /\ last.distance = calculate_distance(LocP1, LocDrop)
    /\ last.fare = 919

\* C19: for every set of drivers and every pickup, _optimized_driver_matching
\* (arrival = distance / 0.5) selects the same driver and returns the same
\* driver-to-pickup distance as _find_nearest_driver, and the two fail with
\* NoDriverFoundError in exactly the same states.
C19_OptimizedIsNearest ==
    \A a \in Locs :
        LET request == RideRequestInit(1, a, LocDrop)
            nearest == _find_nearest_driver(request.pickup_loc)
            best == _optimized_driver_matching(request)
        IN  /\ (best.err = "NoDriverFoundError")
                  <=> (nearest.err = "NoDriverFoundError")
            /\ best.found = nearest.found

\* two different drivers are available, and both searches pick the second
\* of the collection, which is the nearer to the pickup
C19_Witness ==
    /\ Len(drivers) = 2
    /\ drivers[1] # drivers[2]
    /\ driverObj[drivers[1]].is_available
    /\ driverObj[drivers[2]].is_available
    /\ \E a \in Locs :
          LET d1 == calculate_distance(
                        driverObj[drivers[1]].current_location, a)
              d2 == calculate_distance(
                        driverObj[drivers[2]].current_location, a)
          IN  /\ d2 < d1
              /\ _optimized_driver_matching(
                     RideRequestInit(1, a, LocDrop)).found = <<drivers[2], d2>>
              /\ _find_nearest_driver(a).found = <<drivers[2], d2>>

LocationCall == last'.op = "Location"

\* latitude outside [-90, 90] or longitude outside [-180, 180]
OutOfRange(lat, lon) ==
    lat < -900000 \/ lat > 900000 \/ lon < -1800000 \/ lon > 1800000

\* the construction fails with the error exactly when out of range, else
\* makes the object; no object constructed earlier ever changes
LocationContract(error) ==
    /\ LocationCall =>
          /\ last'.err \in {"", error}
          /\ (last'.err = error) <=> OutOfRange(last'.lat, last'.lon)
          /\ IF OutOfRange(last'.lat, last'.lon)
             THEN locations' = locations
             ELSE locations' = Append(locations,
                                   [latitude |-> last'.lat,
                                    longitude |-> last'.lon])
    /\ \A i \in DOMAIN locations :
          /\ i \in DOMAIN locations'
          /\ locations'[i].latitude = locations[i].latitude
          /\ locations'[i].longitude = locations[i].longitude

\* C20 as stated: constructing a Location fails with a ValidationError
\* exactly when latitude is outside [-90, 90] or longitude outside
\* [-180, 180]; -90, 90, -180 and 180 are accepted; a constructed
\* Location's latitude and longitude never change.
C20_LocationValidationError == [][LocationContract("ValidationError")]_vars

\* C20 amended: the error raised is Python's ValueError; the rest as stated.
C20_LocationValueError == [][LocationContract("ValueError")]_vars

\* a Location on the bounds (-90, 180) was constructed after one on the
\* bounds (90, -180), and an assignment to a coordinate has been refused
C20_Witness ==
    /\ Len(locations) = 2
    /\ locations[1] = [latitude |-> 900000, longitude |-> -1800000]
    /\ locations[2] = [latitude |-> -900000, longitude |-> 1800000]
    /\ last.op = "setattr"
    /\ last.err = "AttributeError"

DistanceCall == last'.op = "calculate_distance"

\* C21: for all valid coordinates a and b, calculate_distance(a, a) is 0
\* and calculate_distance(a, b) equals calculate_distance(b, a): the call
\* returns a distance, 0 for equal points, and the call with the two
\* arguments exchanged returns the same.
C21_DistanceZeroAndSymmetric ==
    [][DistanceCall =>
          /\ last'.err = ""
          /\ last'.pickup_loc = last'.dropoff_loc => last'.distance = 0
          /\ <<last'.dropoff_loc, last'.pickup_loc>> \notin MathDomainError
          /\ last'.distance
                = calculate_distance(last'.dropoff_loc, last'.pickup_loc)]_vars

\* the Completed rides of driver d, and the one completed last
CompletedBy(d) == {k \in CompletedRides : rides[k].driver = d}

LastCompletedBy(d) ==
    CHOOSE k \in CompletedBy(d) :
        \A j \in CompletedBy(d) : rides[j].end_time <= rides[k].end_time

\* where driver d is according to the claim: where it was constructed, or
\* at the dropoff of the last ride it completed
ExpectedLocation(d) ==
    IF CompletedBy(d) = {} THEN DriverStart(d)
    ELSE requests[rides[LastCompletedBy(d)].request].dropoff_loc

\* C22: a driver's current location is changed only by complete_ride, which
\* sets it to the dropoff of the completed ride's request; assign_ride does
\* not move the matched driver to the pickup, and a later assign_ride
\* measures that driver's distance from the dropoff of the last ride it
\* completed.
C22_LocationOnlyByComplete ==
    /\ [](\A d \in DriverObjs :
             driverObj[d].current_location = ExpectedLocation(d))
    /\ [][/\ \A d \in DriverObjs :
                driverObj'[d].current_location # driverObj[d].current_location
                   => CompleteCall /\ d = last'.driver
          /\ CompleteCall =>
                driverObj'[last'.driver].current_location
                   = requests[rides[last'.ride].request].dropoff_loc
          /\ AssignOk =>
                /\ driverObj'[last'.driver].current_location
                      = driverObj[last'.driver].current_location
                /\ last'.distance
                      = calculate_distance(ExpectedLocation(last'.driver),
                                           requests[last'.request].pickup_loc)
         ]_vars

\* a driver that started at LocD2, 850 m from the pickup, and has completed
\* a ride to LocDrop is matched again, 7437 m from the pickup
C22_Witness ==
    /\ last.op = "assign_ride"
    /\ last.err = ""
    /\ last.driver = 2
    /\ driverObj[2].total_rides = 1
    /\ driverObj[2].current_location = LocDrop
    /\ requests[last.request].pickup_loc = LocP1
    /\ last.distance = 7437

\* the rides In Progress whose driver is d
InProgressOf(d) == {k \in InProgressRides : rides[k].driver = d}

\* C23: provided complete_ride is called at most once per ride and each
\* driver is added once, a driver in the collection is unavailable if and
\* only if it is the driver of exactly one ride In Progress.
C23_BusyIffOneRideInProgress ==
    \A i \in DOMAIN drivers :
        ~driverObj[drivers[i]].is_available
           <=> Cardinality(InProgressOf(drivers[i])) = 1

\* both drivers are in the collection; one is busy on its second ride, the
\* other is free again after its first
C23_Witness ==
    /\ Len(drivers) = 2
    /\ \E d, e \in DriverObjs :
          /\ d # e
          /\ ~driverObj[d].is_available
          /\ Cardinality(InProgressOf(d)) = 1
          /\ driverObj[d].total_rides = 1
          /\ driverObj[e].is_available
          /\ driverObj[e].total_rides = 1
          /\ InProgressOf(e) = {}

\* the Completed rides whose request belongs to passenger p
CompletedFor(p) ==
    {k \in CompletedRides : requests[rides[k].request].passenger = p}

\* C24: provided complete_ride is called at most once per ride, each
\* driver's total ride count equals the number of Completed rides whose
\* driver it is, and each passenger's trip count equals the number of
\* Completed rides whose request belongs to that passenger.
C24_CountsMatchCompletedRides ==
    /\ \A d \in DriverObjs :
          driverObj[d].total_rides = Cardinality(CompletedBy(d))
    /\ \A p \in PassengerObjs :
          passengerObj[p].total_rides = Cardinality(CompletedFor(p))

\* one passenger has made two trips, with two different drivers
C24_Witness ==
    \E p \in PassengerObjs :
        /\ passengerObj[p].total_rides = 2
        /\ Cardinality(CompletedFor(p)) = 2
        /\ \A d \in DriverObjs :
              /\ driverObj[d].total_rides = 1
              /\ Cardinality(CompletedBy(d)) = 1

\* C25: each request is referenced by at most one ride of the rides
\* collection: assign_ride never creates a second ride, or takes a second
\* driver, for a request whose status is already Assigned.
C25_OneRidePerRequest ==
    \A j, k \in DOMAIN rides :
        j # k => rides[j].request # rides[k].request

\* assign_ride(request) has just failed with NoDriverFoundError while some
\* ride was In Progress, and now complete_ride is called on a ride that is
\* In Progress
CompleteAfterFailedAssign ==
    /\ last.op = "assign_ride"
    /\ last.err = "NoDriverFoundError"
    /\ InProgressRides # {}
    /\ CompleteCall
    /\ rides[last'.ride].status = "In Progress"

C27_CompleteFrame ==
    [][CompleteCall =>
          LET r == last'.ride
              d == rides[r].driver
              p == requests[rides[r].request].passenger
          IN  /\ drivers' = drivers
              /\ passengers' = passengers
              /\ requests' = requests
              /\ DOMAIN rides' = DOMAIN rides
              /\ \A k \in DOMAIN rides : k # r => rides'[k] = rides[k]
              /\ rides'[r].fare = rides[r].fare
              /\ rides'[r].estimated_distance = rides[r].estimated_distance
              /\ rides'[r].driver = rides[r].driver
              /\ rides'[r].request = rides[r].request
              /\ \A e \in DriverObjs \ {d} :
                    /\ driverObj'[e] = driverObj[e]
                    /\ vehicleObj'[e] = vehicleObj[e]
              /\ \A q \in PassengerObjs \ {p} :
                    passengerObj'[q] = passengerObj[q]]_vars

\* a ride was completed with a final fare other than its estimated fare,
\* while another driver is on another ride for another passenger
C27_Witness ==
    /\ last.op = "complete_ride"
    /\ rides[last.ride].status = "Completed"
    /\ rides[last.ride].fare # last.fare
    /\ driverObj[last.driver].earnings = last.fare
    /\ \E k \in InProgressRides :
          /\ rides[k].driver # last.driver
          /\ requests[rides[k].request].passenger
                # requests[rides[last.ride].request].passenger

\* the fare assign_ride fixes for a ride of request q
EstimatedFareOf(q) ==
    _estimate_fare(calculate_distance(requests[q].pickup_loc,
                                      requests[q].dropoff_loc))

RECURSIVE SumEstimatedFares(_)
SumEstimatedFares(S) ==
    IF S = {} THEN 0
    ELSE LET k == CHOOSE x \in S : TRUE
         IN  EstimatedFareOf(rides[k].request) + SumEstimatedFares(S \ {k})

RECURSIVE SumEarnings(_)
SumEarnings(S) ==
    IF S = {} THEN 0
    ELSE LET d == CHOOSE x \in S : TRUE
         IN  driverObj[d].earnings + SumEarnings(S \ {d})

\* C28: the total fare generate_simple_analytics reports is the sum, over
\* the Completed rides, of the estimated fare fixed at assign_ride; it does
\* not depend on the final_fare values passed to complete_ride (so it can
\* differ from the sum of the drivers' earnings, as the witness shows).
C28_TotalFareIsEstimated ==
    /\ [](\A k \in DOMAIN rides :
             rides[k].fare = EstimatedFareOf(rides[k].request))
    /\ [][AnalyticsCall =>
             last'.total_fare = SumEstimatedFares(CompletedRides)]_vars

\* two rides of different estimated fares are Completed: the report says
\* 7.00 + 9.19 = 16.19 while the drivers have earned 2 * 18.50 = 37.00
C28_Witness ==
    /\ last.op = "generate_simple_analytics"
    /\ last.total_trips = 2
    /\ last.total_fare = 1619
    /\ SumEarnings(DriverObjs) = 3700

====
